---- MODULE Spec2Model ----
(***************************************************************************)
(* ShopStream billing testbed (src/app.py): the monitor_guard context      *)
(* manager, the three billable operations, run_batch, and the audit /      *)
(* manual-void section of main(), run by several browser sessions against  *)
(* one shared "transactions" table.                                        *)
(*                                                                         *)
(* Each session executes the Streamlit script one run at a time; the       *)
(* steps of a run are the actions below, and runs of different sessions    *)
(* interleave between steps.  Store calls (insert, select, update) may     *)
(* fail with an exception, which the code catches where it has a handler.  *)
(***************************************************************************)
EXTENDS Integers, Sequences, FiniteSets, TLC

\* ------------------------------------------------------------- bounds
\* browser sessions of the one Streamlit server process
Sessions == {1, 2}
\* uuid4 values generated in all (one per monitor_guard construction)
MaxGuards == 2
\* largest value of the "Stress Test Size" slider that is explored
MaxBatch == 2
\* rows of the table at the start of SpecAudit
MaxRows == 6

\* ---------------------------------------------------------- constants
\* .limit(5) of the audit query
AuditLimit == 5

\* created_at is datetime.utcnow().isoformat(); the clock readings are kept
\* as integers, whose order is the order of the ISO strings

\* the "Client" selectbox: each session keeps its own selection
Client(s) == IF s = 1 THEN "Test Shop A" ELSE "Test Shop B"
Ops == {"add_product_listing", "generate_smart_copy", "brand_safety_check"}

\* product key each operation builds its guard with
ProductKey(op) ==
    CASE op = "add_product_listing" -> "listing"
      [] op = "generate_smart_copy" -> "smart_copy"
      [] op = "brand_safety_check"  -> "brand_guard"

\* revenue_potential each operation builds its guard with, in cents
\* (0.10, 1.00, 5.00)
RevenuePotential(op) ==
    CASE op = "add_product_listing" -> 10
      [] op = "generate_smart_copy" -> 100
      [] op = "brand_safety_check"  -> 500

\* the exception an operation raises when fail is set
ForcedFailure(op) ==
    CASE op = "add_product_listing" -> "Forced Listing Failure"
      [] op = "generate_smart_copy" -> "Forced AI Generation Failure"
      [] op = "brand_safety_check"  -> "Forced Safety Guard Failure"

NoExc == "none"
ConfigError == "ConfigError"
NoGuard == [transaction_id |-> 0, entity_id |-> "none", product_key |-> "none",
            revenue_potential |-> 0]
NoCall == [kind |-> "none", op |-> "none", entity_id |-> "none", fail |-> FALSE,
           count |-> 0, i |-> 0, success |-> 0, failure |-> 0]

VARIABLES
    secrets,   \* st.secrets of the server process holds SUPABASE_URL and SUPABASE_KEY
    store,     \* the transactions table: records in insertion order
    now,       \* the UTC clock read by datetime.utcnow()
    nextId,    \* number of uuid4 values generated so far (each one is fresh)
    pc,        \* pc[s]: where the session's script run stands
    call,      \* call[s]: the handler of the clicked button and, for run_batch, its locals
    guard,     \* guard[s]: the monitor_guard object of the running with-block
    exc,       \* exc[s]: the exception propagating in the session, or NoExc
    errors,    \* errors[s]: st.error messages shown in this script run
    issued,    \* issued[s]: transaction ids of the guards constructed in this script run (history)
    txs,       \* txs[s]: the audit rows rendered by the session's last run
    clicked    \* clicked[s]: key of the Void button that triggered the run, 0 if none

vars == <<secrets, store, now, nextId, pc, call, guard, exc, errors, issued, txs, clicked>>

\* ------------------------------------------------------ pure helpers
\* init_supabase(): st.secrets[...] raises when the secrets are missing
init_supabase == secrets

\* faulty variant: a generator that returns the same value again
SameTransactionId(n) == 1

\* str(uuid.uuid4()): a value no earlier call returned
NewTransactionId(n) == n + 1

\* faulty variant: the two statuses swapped
ExitStatusSwapped(e) == IF e # NoExc THEN "PROVISIONAL" ELSE "VOIDED"

\* status chosen by __exit__ from exc_type
ExitStatus(e) == IF e # NoExc THEN "VOIDED" ELSE "PROVISIONAL"

\* faulty variant: __exit__ returning True: the exception is suppressed
ExitSuppresses(e) == NoExc

\* __exit__ returns False: the exception of the with-body keeps propagating
ExitPropagates(e) == e

\* faulty variant: _log_transaction without its try/except
LogRaises(insertOk) == IF insertOk THEN NoExc ELSE "LogError"

\* _log_transaction catches every exception of the insert: nothing propagates
\* out of it, whatever the insert did
LogPropagates(insertOk) == NoExc

\* the dict built by _log_transaction
Transaction(g, status, t) ==
    [id |-> g.transaction_id, entity_id |-> g.entity_id, product_key |-> g.product_key,
     status |-> status, revenue |-> g.revenue_potential, created_at |-> t]

\* faulty variant: the insert sent twice
InsertTwice(st, rec) == Append(Append(st, rec), rec)

\* table("transactions").insert(transaction)
Insert(st, rec) == Append(st, rec)

\* faulty variant: a button that toggles the status
VoidToggle(old) == IF old = "VOIDED" THEN "PROVISIONAL" ELSE "VOIDED"

\* value written by the void button
VoidValue(old) == "VOIDED"

\* faulty variant: the update without its .eq("id", ...) filter
UpdateStatusAll(st, id) == [k \in DOMAIN st |-> [st[k] EXCEPT !.status = VoidValue(st[k].status)]]

\* table("transactions").update({"status": ...}).eq("id", id)
UpdateStatus(st, id) ==
    [k \in DOMAIN st |->
        IF st[k].id = id THEN [st[k] EXCEPT !.status = VoidValue(st[k].status)] ELSE st[k]]

\* faulty variant: ascending order
FirstAscending(st, idx) == {k \in idx : \A j \in idx : st[j].created_at >= st[k].created_at}

\* .order("created_at", desc=True): the rows that may come first among idx
\* (rows with equal created_at come in any order)
First(st, idx) == {k \in idx : \A j \in idx : st[j].created_at <= st[k].created_at}

\* .select("*").order("created_at", desc=True).limit(n): every result the
\* query may return, as sequences of rows
RECURSIVE Ordered(_, _, _)
Ordered(st, idx, n) ==
    IF n = 0 \/ idx = {} THEN {<<>>}
    ELSE UNION {{<<st[k]>> \o r : r \in Ordered(st, idx \ {k}, n - 1)} : k \in First(st, idx)}

SelectLast(st) == Ordered(st, DOMAIN st, AuditLimit)

\* guard constructions the running handlers still have to make
Pending(s) ==
    IF pc[s] \in {"construct", "enter", "work", "exit", "returning"}
    THEN call[s].count - call[s].i - (IF pc[s] = "construct" THEN 0 ELSE 1)
    ELSE 0

RECURSIVE SumPending(_)
SumPending(S) ==
    IF S = {} THEN 0
    ELSE LET s == CHOOSE x \in S : TRUE IN Pending(s) + SumPending(S \ {s})

Budget == MaxGuards - nextId - SumPending(Sessions)

\* ------------------------------------------------------------- Init
Init ==
    /\ secrets \in BOOLEAN
    /\ store = <<>>
    /\ now = 0
    /\ nextId = 0
    /\ pc = [s \in Sessions |-> "idle"]
    /\ call = [s \in Sessions |-> NoCall]
    /\ guard = [s \in Sessions |-> NoGuard]
    /\ exc = [s \in Sessions |-> NoExc]
    /\ errors = [s \in Sessions |-> 0]
    /\ issued = [s \in Sessions |-> <<>>]
    /\ txs = [s \in Sessions |-> <<>>]
    /\ clicked = [s \in Sessions |-> 0]

\* ---------------------------------------------------------- actions
\* main(): one of the three single-operation buttons is clicked
ClickOp(s, ops) ==
    /\ pc[s] = "idle"
    /\ Budget >= 1
    /\ \E op \in ops, f \in BOOLEAN :
          call' = [call EXCEPT ![s] = [kind |-> "direct", op |-> op, entity_id |-> Client(s),
                                       fail |-> f, count |-> 1, i |-> 0,
                                       success |-> 0, failure |-> 0]]
    /\ pc' = [pc EXCEPT ![s] = "construct"]
    /\ txs' = [txs EXCEPT ![s] = <<>>]
    /\ UNCHANGED <<secrets, store, now, nextId, guard, exc, errors, issued, clicked>>

\* main(): one of the three batch buttons is clicked; run_batch starts
\* (the slider gives count >= 1)
ClickBatch(s, ops) ==
    /\ pc[s] = "idle"
    /\ \E op \in ops, f \in BOOLEAN, n \in 1..MaxBatch :
          /\ Budget >= n
          /\ call' = [call EXCEPT ![s] = [kind |-> "batch", op |-> op, entity_id |-> Client(s),
                                          fail |-> f, count |-> n, i |-> 0,
                                          success |-> 0, failure |-> 0]]
    /\ pc' = [pc EXCEPT ![s] = "construct"]
    /\ txs' = [txs EXCEPT ![s] = <<>>]
    /\ UNCHANGED <<secrets, store, now, nextId, guard, exc, errors, issued, clicked>>

\* monitor_guard.__init__: the transaction id is generated, then the client
\* is created; a missing secret raises out of the constructor
Construct(s) ==
    /\ pc[s] = "construct"
    /\ nextId' = nextId + 1
    /\ issued' = [issued EXCEPT ![s] = Append(@, NewTransactionId(nextId))]
    /\ IF init_supabase
       THEN /\ guard' = [guard EXCEPT ![s] =
                            [transaction_id |-> NewTransactionId(nextId),
                             entity_id |-> call[s].entity_id,
                             product_key |-> ProductKey(call[s].op),
                             revenue_potential |-> RevenuePotential(call[s].op)]]
            /\ pc' = [pc EXCEPT ![s] = "enter"]
            /\ exc' = exc
       ELSE /\ guard' = guard
            /\ exc' = [exc EXCEPT ![s] = ConfigError]
            /\ pc' = [pc EXCEPT ![s] = "returning"]
    /\ UNCHANGED <<secrets, store, now, call, errors, txs, clicked>>

\* monitor_guard.__enter__: a toast, nothing is written
Enter(s) ==
    /\ pc[s] = "enter"
    /\ pc' = [pc EXCEPT ![s] = "work"]
    /\ UNCHANGED <<secrets, store, now, nextId, call, guard, exc, errors, issued, txs, clicked>>

\* the body of the with-block: sleep, then raise if fail is set
Work(s) ==
    /\ pc[s] = "work"
    /\ now' = now + 1
    /\ exc' = [exc EXCEPT ![s] = IF call[s].fail THEN ForcedFailure(call[s].op) ELSE NoExc]
    /\ pc' = [pc EXCEPT ![s] = "exit"]
    /\ UNCHANGED <<secrets, store, nextId, call, guard, errors, issued, txs, clicked>>

\* monitor_guard.__exit__ with _log_transaction: one insert, whose failure
\* is shown with st.error and swallowed; the with-body's exception goes on
Exit(s) ==
    /\ pc[s] = "exit"
    /\ \E insertOk \in BOOLEAN :
          /\ IF insertOk
             THEN /\ store' = Insert(store, Transaction(guard[s], ExitStatus(exc[s]), now))
                  /\ errors' = errors
             ELSE /\ store' = store
                  /\ errors' = [errors EXCEPT ![s] = @ + 1]
          /\ exc' = [exc EXCEPT ![s] =
                        IF LogPropagates(insertOk) # NoExc
                        THEN LogPropagates(insertOk) ELSE ExitPropagates(@)]
    /\ pc' = [pc EXCEPT ![s] = "returning"]
    /\ UNCHANGED <<secrets, now, nextId, call, guard, issued, txs, clicked>>

\* a single operation returns to main(): an exception ends the script run
\* before the audit section, a normal return goes on to it
ReturnDirect(s) ==
    /\ pc[s] = "returning"
    /\ call[s].kind = "direct"
    /\ guard' = [guard EXCEPT ![s] = NoGuard]
    /\ exc' = [exc EXCEPT ![s] = NoExc]
    /\ IF exc[s] # NoExc
       THEN /\ pc' = [pc EXCEPT ![s] = "idle"]
            /\ call' = [call EXCEPT ![s] = NoCall]
            /\ errors' = [errors EXCEPT ![s] = 0]
            /\ issued' = [issued EXCEPT ![s] = <<>>]
       ELSE /\ pc' = [pc EXCEPT ![s] = "audit"]
            /\ UNCHANGED <<call, errors, issued>>
    /\ UNCHANGED <<secrets, store, now, nextId, txs, clicked>>

\* faulty variant: the two counters swapped
TallySwapped(c, e) ==
    IF e = NoExc
    THEN [c EXCEPT !.failure = @ + 1, !.i = @ + 1]
    ELSE [c EXCEPT !.success = @ + 1, !.i = @ + 1]

\* run_batch's try/except around op_func: one iteration tallied
Tally(c, e) ==
    IF e = NoExc
    THEN [c EXCEPT !.success = @ + 1, !.i = @ + 1]
    ELSE [c EXCEPT !.failure = @ + 1, !.i = @ + 1]

\* run_batch: after the tally the next iteration or, after the last one, the
\* report and the audit section
ReturnBatch(s) ==
    /\ pc[s] = "returning"
    /\ call[s].kind = "batch"
    /\ call' = [call EXCEPT ![s] = Tally(@, exc[s])]
    /\ guard' = [guard EXCEPT ![s] = NoGuard]
    /\ exc' = [exc EXCEPT ![s] = NoExc]
    /\ pc' = [pc EXCEPT ![s] = IF call[s].i + 1 < call[s].count THEN "construct" ELSE "audit"]
    /\ UNCHANGED <<secrets, store, now, nextId, errors, issued, txs, clicked>>

\* any other widget interaction reruns the script: only the audit section acts
Refresh(s) ==
    /\ pc[s] = "idle"
    /\ pc' = [pc EXCEPT ![s] = "audit"]
    /\ txs' = [txs EXCEPT ![s] = <<>>]
    /\ UNCHANGED <<secrets, store, now, nextId, call, guard, exc, errors, issued, clicked>>

\* a Void button rendered by the last run is clicked: the script reruns
ClickVoid(s) ==
    /\ pc[s] = "idle"
    /\ \E k \in DOMAIN txs[s] :
          /\ txs[s][k].status = "PROVISIONAL"
          /\ clicked' = [clicked EXCEPT ![s] = txs[s][k].id]
    /\ pc' = [pc EXCEPT ![s] = "audit"]
    /\ txs' = [txs EXCEPT ![s] = <<>>]
    /\ UNCHANGED <<secrets, store, now, nextId, call, guard, exc, errors, issued>>

\* index of the row whose Void button is the clicked one, 0 if it is not rendered
VoidIndex(r, id) ==
    IF \E k \in DOMAIN r : r[k].id = id /\ r[k].status = "PROVISIONAL"
    THEN CHOOSE k \in DOMAIN r : r[k].id = id /\ r[k].status = "PROVISIONAL"
    ELSE 0

\* the audit section: the select, then the rows are rendered up to the one
\* whose Void button was clicked; a failure shows the "Log in" note
AuditRead(s) ==
    /\ pc[s] = "audit"
    /\ \E selectOk \in BOOLEAN :
          IF init_supabase /\ selectOk
          THEN \E r \in SelectLast(store) :
                  IF VoidIndex(r, clicked[s]) # 0
                  THEN /\ txs' = [txs EXCEPT ![s] = SubSeq(r, 1, VoidIndex(r, clicked[s]))]
                       /\ pc' = [pc EXCEPT ![s] = "void"]
                       /\ clicked' = clicked
                  ELSE /\ txs' = [txs EXCEPT ![s] = r]
                       /\ pc' = [pc EXCEPT ![s] = "idle"]
                       /\ clicked' = [clicked EXCEPT ![s] = 0]
          ELSE /\ txs' = [txs EXCEPT ![s] = <<>>]
               /\ pc' = [pc EXCEPT ![s] = "idle"]
               /\ clicked' = [clicked EXCEPT ![s] = 0]
    /\ call' = [call EXCEPT ![s] = NoCall]
    /\ errors' = [errors EXCEPT ![s] = 0]
    /\ issued' = [issued EXCEPT ![s] = <<>>]
    /\ UNCHANGED <<secrets, store, now, nextId, guard, exc>>

\* the update behind the Void button; its failure is caught by the audit
\* section's except, its success is followed by st.rerun()
VoidUpdate(s) ==
    /\ pc[s] = "void"
    /\ \E updateOk \in BOOLEAN :
          IF updateOk
          THEN /\ store' = UpdateStatus(store, clicked[s])
               /\ pc' = [pc EXCEPT ![s] = "rerun"]
               /\ clicked' = clicked
          ELSE /\ store' = store
               /\ pc' = [pc EXCEPT ![s] = "idle"]
               /\ clicked' = [clicked EXCEPT ![s] = 0]
    /\ UNCHANGED <<secrets, now, nextId, call, guard, exc, errors, issued, txs>>

\* st.rerun(): a new script run with no button pressed
Rerun(s) ==
    /\ pc[s] = "rerun"
    /\ pc' = [pc EXCEPT ![s] = "audit"]
    /\ clicked' = [clicked EXCEPT ![s] = 0]
    /\ txs' = [txs EXCEPT ![s] = <<>>]
    /\ UNCHANGED <<secrets, store, now, nextId, call, guard, exc, errors, issued>>

\* ------------------------------------------------- specifications
\* The whole program: every button of every session.
Next ==
    \E s \in Sessions :
        \/ ClickOp(s, Ops)
        \/ ClickBatch(s, Ops)
        \/ Construct(s)
        \/ Enter(s)
        \/ Work(s)
        \/ Exit(s)
        \/ ReturnDirect(s)
        \/ ReturnBatch(s)
        \/ Refresh(s)
        \/ ClickVoid(s)
        \/ AuditRead(s)
        \/ VoidUpdate(s)
        \/ Rerun(s)

Spec == Init /\ [][Next]_vars

\* The guard and run_batch with all three operations; no Void button is used.
NextGuard ==
    \E s \in Sessions :
        \/ ClickOp(s, Ops)
        \/ ClickBatch(s, Ops)
        \/ Construct(s)
        \/ Enter(s)
        \/ Work(s)
        \/ Exit(s)
        \/ ReturnDirect(s)
        \/ ReturnBatch(s)
        \/ AuditRead(s)

SpecGuard == Init /\ [][NextGuard]_vars

\* Every button, the operation buttons being those of the listing column.
NextVoid ==
    \E s \in Sessions :
        \/ ClickOp(s, {"add_product_listing"})
        \/ ClickBatch(s, {"add_product_listing"})
        \/ Construct(s)
        \/ Enter(s)
        \/ Work(s)
        \/ Exit(s)
        \/ ReturnDirect(s)
        \/ ReturnBatch(s)
        \/ Refresh(s)
        \/ ClickVoid(s)
        \/ AuditRead(s)
        \/ VoidUpdate(s)
        \/ Rerun(s)

SpecVoid == Init /\ [][NextVoid]_vars

\* The audit section over a table that earlier runs have filled: rows of
\* successful listings in insertion order, the clock never going back, at most
\* one row per session written at the same clock value.
\* created_at of n rows in insertion order
RECURSIVE Stamps(_)
Stamps(n) ==
    IF n = 0 THEN {<<>>}
    ELSE IF n = 1 THEN {<<1>>}
    ELSE UNION {{Append(q, t) : t \in {q[n - 1], q[n - 1] + 1}} : q \in Stamps(n - 1)}

TableOf(q) ==
    [k \in DOMAIN q |->
        [id |-> k, entity_id |-> Client(1 + (k % 2)),
         product_key |-> ProductKey("add_product_listing"), status |-> "PROVISIONAL",
         revenue |-> RevenuePotential("add_product_listing"), created_at |-> q[k]]]

FilledTables ==
    {TableOf(q) : q \in
        {q \in UNION {Stamps(n) : n \in 0..MaxRows} :
            \A k \in DOMAIN q :
                Cardinality({j \in DOMAIN q : q[j] = q[k]}) <= Cardinality(Sessions)}}

InitAudit ==
    /\ secrets \in BOOLEAN
    /\ store \in FilledTables
    /\ now = (IF store = <<>> THEN 0 ELSE store[Len(store)].created_at)
    /\ nextId = Len(store)
    /\ pc = [s \in Sessions |-> "idle"]
    /\ call = [s \in Sessions |-> NoCall]
    /\ guard = [s \in Sessions |-> NoGuard]
    /\ exc = [s \in Sessions |-> NoExc]
    /\ errors = [s \in Sessions |-> 0]
    /\ issued = [s \in Sessions |-> <<>>]
    /\ txs = [s \in Sessions |-> <<>>]
    /\ clicked = [s \in Sessions |-> 0]

NextAudit ==
    \E s \in Sessions :
        \/ Refresh(s)
        \/ AuditRead(s)

SpecAudit == InitAudit /\ [][NextAudit]_vars

\* ------------------------------------------------------------ claims
\* rows of the table that carry transaction id
RowsWith(st, id) == {k \in DOMAIN st : st[k].id = id}

InGuard(s) == guard[s] # NoGuard
Statuses == {"PROVISIONAL", "VOIDED"}

\* the step of session s that runs __exit__
ExitStep(s) == pc[s] = "exit" /\ pc'[s] = "returning"
\* ... in which the insert succeeded: no st.error was added
Logged(s) == errors'[s] = errors[s]

\* what the caller of the guarded operation must see, from the fail flag alone
Expected(s) == IF call[s].fail THEN ForcedFailure(call[s].op) ELSE NoExc

\* C1 as stated: no row with the guard's id while the with-block runs, exactly
\* one, PROVISIONAL or VOIDED, once __exit__ has returned.
C1_ExactlyOneRecord ==
    \A s \in Sessions :
        InGuard(s) =>
            /\ pc[s] \in {"enter", "work", "exit"} =>
                  RowsWith(store, guard[s].transaction_id) = {}
            /\ pc[s] = "returning" =>
                  /\ Cardinality(RowsWith(store, guard[s].transaction_id)) = 1
                  /\ \A k \in RowsWith(store, guard[s].transaction_id) :
                        store[k].status \in Statuses

C1_Rows(s) ==
    InGuard(s) =>
        /\ pc[s] \in {"enter", "work", "exit"} =>
              RowsWith(store, guard[s].transaction_id) = {}
        /\ pc[s] = "returning" =>
              /\ Cardinality(RowsWith(store, guard[s].transaction_id)) <= 1
              /\ \A k \in RowsWith(store, guard[s].transaction_id) :
                    store[k].status \in Statuses

C1_ExitWrites(s) ==
    ExitStep(s) =>
        Cardinality(RowsWith(store', guard[s].transaction_id)) = (IF Logged(s) THEN 1 ELSE 0)

\* C1 amended: no row with the guard's id while the with-block runs; once
\* __exit__ has returned at most one, PROVISIONAL or VOIDED; __exit__ leaves
\* exactly one when its insert succeeded and none when it failed.
C1_OneRecordWhenInserted ==
    /\ [](\A s \in Sessions : C1_Rows(s))
    /\ [][\A s \in Sessions : C1_ExitWrites(s)]_vars

C1_Witness ==
    \E s \in Sessions :
        /\ pc[s] = "returning" /\ InGuard(s) /\ exc[s] # NoExc
        /\ Cardinality(RowsWith(store, guard[s].transaction_id)) = 1

C2_Step(s) ==
    (ExitStep(s) /\ call[s].fail) =>
        /\ exc'[s] = ForcedFailure(call[s].op)
        /\ \A k \in RowsWith(store', guard[s].transaction_id) : store'[k].status = "VOIDED"
        /\ Logged(s) => RowsWith(store', guard[s].transaction_id) = {Len(store')}

\* C2: when the wrapped work raises, __exit__ leaves every row of the guard
\* VOIDED (one such row when the insert succeeded) and the same exception
\* is propagating when it returns.
C2_RaisedIsVoidedAndPropagates == [][\A s \in Sessions : C2_Step(s)]_vars

C2_Witness ==
    \E s \in Sessions :
        /\ pc[s] = "returning" /\ InGuard(s) /\ call[s].fail /\ exc[s] = ForcedFailure(call[s].op)
        /\ \E k \in RowsWith(store, guard[s].transaction_id) : store[k].status = "VOIDED"

C3_Step(s) ==
    (ExitStep(s) /\ ~call[s].fail /\ Logged(s)) =>
        /\ Len(store') = Len(store) + 1
        /\ LET row == store'[Len(store')] IN
              /\ row.id = guard[s].transaction_id
              /\ row.status = "PROVISIONAL"
              /\ row.entity_id = guard[s].entity_id
              /\ row.product_key = guard[s].product_key
              /\ row.revenue = guard[s].revenue_potential
              /\ call[s].op = "add_product_listing" =>
                    /\ row.product_key = "listing"
                    /\ row.revenue = 10
                    /\ row.entity_id = call[s].entity_id

\* C3: when the wrapped work returns, the row __exit__ inserts is PROVISIONAL
\* and carries the guard's entity_id, product_key and revenue; a listing made
\* by add_product_listing is ("listing", 0.10, the caller's entity id).
C3_SuccessIsProvisional == [][\A s \in Sessions : C3_Step(s)]_vars

C3_Witness ==
    \E s \in Sessions :
        /\ pc[s] = "returning" /\ InGuard(s) /\ exc[s] = NoExc
        /\ call[s].op = "add_product_listing"
        /\ \E k \in DOMAIN store :
              store[k] = [id |-> guard[s].transaction_id, entity_id |-> Client(s),
                          product_key |-> "listing", status |-> "PROVISIONAL",
                          revenue |-> 10, created_at |-> store[k].created_at]

C4_Outcome(s) == (pc[s] = "returning" /\ InGuard(s)) => exc[s] = Expected(s)

C4_Reported(s) == (ExitStep(s) /\ store' = store) => errors'[s] = errors[s] + 1

\* C4: a failed insert is reported with st.error and changes nothing else:
\* when __exit__ has returned, what propagates to the caller is decided by the
\* wrapped work alone, whether the insert succeeded or failed.
C4_LoggingFailureContained ==
    /\ [](\A s \in Sessions : C4_Outcome(s))
    /\ [][\A s \in Sessions : C4_Reported(s)]_vars

C4_Witness ==
    \E s, t \in Sessions :
        /\ pc[s] = "returning" /\ InGuard(s) /\ errors[s] > 0 /\ exc[s] = NoExc
        /\ RowsWith(store, guard[s].transaction_id) = {}
        /\ pc[t] = "returning" /\ InGuard(t) /\ errors[t] > 0 /\ exc[t] # NoExc
        /\ RowsWith(store, guard[t].transaction_id) = {}

\* run_batch has left its loop: the st.success report
BatchDone(s) == pc[s] = "audit" /\ call[s].kind = "batch"

\* C5 as stated: the report is (0, n) with fail set and (n, 0) without.
C5_ReportFollowsFail ==
    \A s \in Sessions :
        BatchDone(s) =>
            IF call[s].fail
            THEN call[s].success = 0 /\ call[s].failure = call[s].count
            ELSE call[s].success = call[s].count /\ call[s].failure = 0

\* C5 amended: the report is (0, n) with fail set; without it, (n, 0) when the
\* Supabase secrets are configured and (0, n) when they are not, the
\* constructor's exception being tallied like any other.
C5_ReportFollowsFailAndSecrets ==
    \A s \in Sessions :
        BatchDone(s) =>
            IF call[s].fail \/ ~secrets
            THEN call[s].success = 0 /\ call[s].failure = call[s].count
            ELSE call[s].success = call[s].count /\ call[s].failure = 0

C5_Witness ==
    \E s \in Sessions :
        /\ BatchDone(s) /\ ~call[s].fail /\ call[s].count >= 2
        /\ call[s].success = call[s].count

\* rows of the table written by the guards of this script run
RunRows(s) == {k \in DOMAIN store : \E j \in DOMAIN issued[s] : store[k].id = issued[s][j]}

Distinct(q) == \A j, k \in DOMAIN q : j # k => q[j] # q[k]

\* C6 as stated: the batch ends with successes + failures = n and n new rows
\* with n pairwise distinct transaction ids.
C6_BatchLeavesNRows ==
    \A s \in Sessions :
        BatchDone(s) =>
            /\ call[s].success + call[s].failure = call[s].count
            /\ Cardinality(RunRows(s)) = call[s].count
            /\ Cardinality({store[k].id : k \in RunRows(s)}) = call[s].count

\* C6 amended: the iterations run one after another, each constructing one
\* guard with an id of its own, whatever the earlier ones raised; the batch
\* ends with successes + failures = n and one new row for each iteration
\* whose insert succeeded: n minus the reported logging failures when the
\* secrets are configured, none when they are not.
C6_BatchRowsPerInsert ==
    \A s \in Sessions :
        call[s].kind = "batch" =>
            /\ Len(issued[s]) =
                  call[s].i + (IF pc[s] \in {"enter", "work", "exit", "returning"} THEN 1 ELSE 0)
            /\ call[s].success + call[s].failure = call[s].i
            /\ Distinct(issued[s])
            /\ \A j \in DOMAIN issued[s] : Cardinality(RowsWith(store, issued[s][j])) <= 1
            /\ BatchDone(s) =>
                  /\ call[s].i = call[s].count
                  /\ Cardinality(RunRows(s)) =
                        (IF secrets THEN call[s].count - errors[s] ELSE 0)

C6_Witness ==
    \E s \in Sessions :
        /\ BatchDone(s) /\ call[s].fail /\ call[s].count >= 2
        /\ call[s].failure = call[s].count
        /\ Cardinality(RunRows(s)) = call[s].count

C7_Step ==
    \A k \in DOMAIN store :
        /\ k \in DOMAIN store'
        /\ store'[k].id = store[k].id
        /\ store'[k].status \in Statuses
        /\ store[k].status = "VOIDED" => store'[k].status = "VOIDED"

\* C7: no step deletes or moves a row or changes its id, a row's status is
\* always PROVISIONAL or VOIDED, and a VOIDED row stays VOIDED.
C7_VoidedIsTerminal == [][C7_Step]_vars

\* a row voided by hand, with a stale update of the same row still to come
C7_Witness ==
    \E s, t \in Sessions :
        /\ s # t /\ pc[s] = "rerun" /\ pc[t] = "void" /\ clicked[s] = clicked[t]
        /\ \E k \in RowsWith(store, clicked[t]) : store[k].status = "VOIDED"
        /\ \E j \in DOMAIN txs[t] : txs[t][j].id = clicked[t] /\ txs[t][j].status = "PROVISIONAL"

\* the step of session s in which its update succeeds
VoidStep(s) == pc[s] = "void" /\ pc'[s] = "rerun"

C8_Step(s) ==
    (VoidStep(s) /\ \E k \in RowsWith(store, clicked[s]) : store[k].status = "PROVISIONAL") =>
        /\ DOMAIN store' = DOMAIN store
        /\ \A k \in DOMAIN store :
              IF store[k].id = clicked[s]
              THEN store'[k] = [store[k] EXCEPT !.status = "VOIDED"]
              ELSE store'[k] = store[k]
        /\ UpdateStatus(store', clicked[s]) = store'

\* C8: the void of a PROVISIONAL row sets that row's status to VOIDED and
\* changes nothing else in the table; the same update applied again leaves
\* the table as it is.
C8_VoidChangesOnlyStatus == [][\A s \in Sessions : C8_Step(s)]_vars

C8_Witness ==
    \E s \in Sessions :
        /\ pc[s] = "rerun"
        /\ \E k \in RowsWith(store, clicked[s]) : store[k].status = "VOIDED"
        /\ \E k \in DOMAIN store : store[k].id # clicked[s] /\ store[k].status = "PROVISIONAL"

\* the step of session s in which the audit section renders all the rows it read
ReadStep(s) == pc[s] = "audit" /\ pc'[s] = "idle" /\ txs'[s] # <<>>

Newest(r, st) ==
    /\ Len(r) = (IF Len(st) < 5 THEN Len(st) ELSE 5)
    /\ \A j \in DOMAIN r : \E k \in DOMAIN st : st[k] = r[j]
    /\ Distinct([j \in DOMAIN r |-> r[j].id])
    /\ \A k \in DOMAIN st :
          (\A j \in DOMAIN r : r[j].id # st[k].id) =>
              \A j \in DOMAIN r : r[j].created_at >= st[k].created_at

\* C9 as stated: an audit read renders at most 5 rows, strictly descending
\* in created_at, and no row left out is newer than a rendered one.
C9_StrictlyDescending ==
    [][\A s \in Sessions :
          ReadStep(s) =>
              /\ Len(txs'[s]) <= 5
              /\ Newest(txs'[s], store)
              /\ \A j \in 1..(Len(txs'[s]) - 1) :
                    txs'[s][j].created_at > txs'[s][j + 1].created_at]_vars

\* C9 amended: an audit read renders at most 5 rows, in descending order of
\* created_at with rows of equal created_at in either order, and no row left
\* out is newer than a rendered one.
C9_Descending ==
    [][\A s \in Sessions :
          ReadStep(s) =>
              /\ Len(txs'[s]) <= 5
              /\ Newest(txs'[s], store)
              /\ \A j \in 1..(Len(txs'[s]) - 1) :
                    txs'[s][j].created_at >= txs'[s][j + 1].created_at]_vars

C9_Witness ==
    \E s \in Sessions :
        /\ pc[s] = "idle" /\ Len(txs[s]) = 5 /\ Len(store) > 5
        /\ \E j \in 1..4 : txs[s][j].created_at = txs[s][j + 1].created_at
        /\ \E j \in 1..4 : txs[s][j].created_at > txs[s][j + 1].created_at

C10_Second(s) ==
    (VoidStep(s) /\ \A k \in RowsWith(store, clicked[s]) : store[k].status = "VOIDED") =>
        store' = store

C10_Both(s, t) ==
    (s # t /\ pc[s] = "rerun" /\ pc[t] = "rerun" /\ clicked[s] = clicked[t]) =>
        /\ RowsWith(store, clicked[s]) # {}
        /\ \A k \in RowsWith(store, clicked[s]) : store[k].status = "VOIDED"

\* a session that has read the row as PROVISIONAL can complete its update,
\* whatever the row's status has become
C10_Unconditional(s) == pc[s] = "void" => ENABLED (VoidUpdate(s) /\ pc'[s] = "rerun")

\* C10: when two sessions have read the same row as PROVISIONAL and both
\* update it, neither update is refused, the one that comes second finds the
\* row VOIDED and leaves the table as it is, and after both the row is VOIDED.
C10_RacingVoidsAreOneVoid ==
    /\ [](\A s, t \in Sessions : C10_Both(s, t) /\ C10_Unconditional(s))
    /\ [][\A s \in Sessions : C10_Second(s)]_vars

C10_Witness ==
    \E s, t \in Sessions :
        /\ s # t /\ pc[s] = "rerun" /\ pc[t] = "rerun" /\ clicked[s] = clicked[t]
        /\ \A k \in RowsWith(store, clicked[s]) : store[k].status = "VOIDED"
        /\ \E k \in DOMAIN store : store[k].id # clicked[s]

====
